---- MODULE Spec2Model ----
(***************************************************************************)
(* The orchestration state machine of the incident-remediation agent.      *)
(*                                                                         *)
(* Three entry points build a LangGraph graph and drive it from an         *)
(* interactive loop:                                                       *)
(*   "graph"  src/src/main/graph.py        agent / action / human_approval *)
(*            nodes, compiled WITHOUT a checkpointer (line 219)            *)
(*   "react"  src/src/main/react_agent.py  create_react_agent with a       *)
(*            MemorySaver, no approval node                                *)
(*   "mcp"    src/protocols/mcp/client.py  llm / tools nodes with an       *)
(*            AsyncSqliteSaver, no approval node                           *)
(*                                                                         *)
(* The model keeps one message channel (the graph state), the checkpoint   *)
(* store, the position of the interactive loop (pc), the node the graph   *)
(* runs next (node), and history variables recording every provider       *)
(* invocation and every approval decision.                                 *)
(*                                                                         *)
(* The shared PowerShell session of tools/powershell/runner.py is modelled *)
(* next to it (NextRunner, SpecRunner, FairRunner): concurrent callers of  *)
(* run_command, the child process and the two output queues.               *)
(***************************************************************************)
EXTENDS Integers, Sequences, FiniteSets, Bags, TLC

VARIABLES
    entry,        \* which entry point is running
    pc,           \* interactive loop: "input" | "run" | "confirm" | "resume" | "exit"
    node,         \* next graph node: "idle" | "agent" | "action" | "human_approval" | "end" | "aborted"
    thread,       \* thread_id of the current invocation
    messages,     \* the graph state's `messages` channel of the current/last run
    store,        \* checkpointer storage: thread_id -> last saved messages
    turnStart,    \* history: the checkpointer storage when the current turn began
    pending,      \* action node: indexes of the batch not yet dispatched
    completed,    \* action node: indexes of the batch in completion order
    failed,       \* action node: indexes of the batch whose call failed
    invoked,      \* history: the bag of calls handed to a provider
    decided,      \* history: the batches an approval decision was given for
    exposed,      \* the interrupt payload last surfaced to the approver
    decision,     \* decision consumed in this turn: "none" | "approved" | "rejected"
    decisions,    \* history: number of approval decisions consumed
    suspensions,  \* history: number of interrupts raised by human_approval_node
    nextId,       \* next fresh tool-call id the model side assigns
    turns,        \* number of user messages submitted
    steps,        \* supersteps executed by the current invocation
    lastError,    \* error surfaced to the caller by the last invocation
    faults,       \* history: number of failing calls so far
    \* The shared PowerShellRunner (tools/powershell/runner.py).
    process,       \* the powershell.exe child: "running" | "exited"
    lock,          \* self.lock: 0 when free, else the caller holding it
    stdin,         \* commands written to the child's stdin, not yet started
    cur,           \* the command the child is executing, 0 when none
    stage,         \* how far the child is with it: "body" | "marked_out"
    emitted,       \* output lines the child has written for it
    stdout_queue,  \* lines the reader thread has put, not yet taken
    stderr_queue,
    rpc,           \* each caller's position in run_command
    end_marker,    \* each caller's end marker (the id of its command)
    end_stdout,    \* each caller's loop flags
    end_stderr,
    stdout_lines,  \* each caller's collected lines
    stderr_lines,
    elapsed,       \* time since each caller wrote its command, capped at Timeout
    nextCmd,       \* next fresh command id (a fresh uuid4 per call)
    \* EnhancedJenkinsClient.wait_for_build_completion (tools/jenkins/factory.py).
    jpc,           \* position: "idle" | "test" | "get" | "sleep" | "done"
    jnow,          \* the clock
    start_time,    \* the clock when the call began
    jtimeout,      \* the `timeout` argument
    polls,         \* history: every get_build_info call, with the time it began
    jreturn,       \* the returned dict
    \* gemini_llm_retry and is_retryable_exception (src/utils/retry.py).
    RETRYABLE_GOOGLE_EXCEPTIONS,      \* the module's tuples, set at import
    NON_RETRYABLE_GOOGLE_EXCEPTIONS,
    gpc,           \* position of one wrapped call
    gnow,          \* the clock
    gstart,        \* the clock when the first attempt began
    attempts,      \* history: when each attempt began and how it ended
    exc,           \* the exception of the last failed attempt
    verdict,       \* what is_retryable_exception returned for it
    \* LLMProvider (llms/base.py).
    self_model,    \* self._model of each provider object, None or an instance
    get_calls,     \* history of the get_model calls
    instances,     \* the number of instances _create_model has built
    \* PowerShellTool and PowerShellRunner.close (tools/powershell).
    args,          \* the keyword arguments of each caller's _run
    returncode,    \* the returncode of each caller's last result
    issuer,        \* the caller that wrote each command
    cpc            \* position of the thread that calls close()

ovars == <<entry, pc, node, thread, messages, store, turnStart, pending,
           completed, failed, invoked, decided, exposed, decision, decisions,
           suspensions, nextId, turns, steps, lastError, faults>>

rvars == <<process, lock, stdin, cur, stage, emitted, stdout_queue, stderr_queue,
           rpc, end_marker, end_stdout, end_stderr, stdout_lines, stderr_lines,
           elapsed, nextCmd>>

jvars == <<jpc, jnow, start_time, jtimeout, polls, jreturn>>

\* The variables of the components next to the orchestrator and the runner.
gvars == <<RETRYABLE_GOOGLE_EXCEPTIONS, NON_RETRYABLE_GOOGLE_EXCEPTIONS, gpc,
           gnow, gstart, attempts, exc, verdict>>

pvars == <<self_model, get_calls, instances>>

tvars == <<args, returncode, issuer, cpc>>

xvars == <<jvars, gvars, pvars, tvars>>

vars == <<ovars, rvars, xvars>>

(***************************************************************************)
(* Bounds of the model.                                                    *)
(***************************************************************************)
MaxTurns == 2        \* user messages per session
MaxCalls == 3        \* tool calls proposed per session
MaxBatch == 2        \* tool calls per assistant message
RecursionLimit == 3  \* supersteps per invocation (LangGraph's recursion_limit)
MaxFaults == 1       \* failing calls per session (provider errors, unknown names)
MaxCmds == 2         \* run_command calls on the shared runner
MaxLines == 1        \* output lines of one command besides its end markers
Timeout == 2         \* the `timeout` argument of run_command, in clock ticks
MaxTimeout == 2      \* largest `timeout` of wait_for_build_completion, in sleeps
MaxGetCalls == 4     \* get_model calls in one process
StopDelay == 5       \* stop_after_delay(300), in clock ticks of 60 s

(***************************************************************************)
(* Static data of the program.                                             *)
(***************************************************************************)
Entries == {"graph", "react", "mcp"}

HIGH_RISK_TOOLS ==
    {"merge_pull_request", "powershell_tofu_apply", "scale_k8s_deployment",
     "delete_k8s_pod", "jenkins_rollback", "jenkins_emergency_deploy",
     "create_or_update_file"}

\* The tools bound to the model at each entry point, a representative subset
\* of all_tools. graph.py routes on the risk of the tool: one standard and
\* one high-risk tool. The other two entry points run every bound tool alike:
\* one high-risk tool stands for all.
all_tools(e) ==
    CASE e = "graph" -> {"list_k8s_pods", "scale_k8s_deployment"}
      [] e = "react" -> {"merge_pull_request"}
      [] e = "mcp"   -> {"merge_pull_request"}

\* A tool name the model makes up: no tool of that name is bound.
UnknownTool == "no_such_tool"

\* The names a reasoning step can put into a tool call.
ToolNames(e) == all_tools(e) \cup {UnknownTool}

ArgValues == {"a1"}

Queries == {"q1", "q2"}

\* The user messages tried at each entry point after n turns. Only client.py
\* looks at the text of the query (its thread_id is derived from it); for the
\* other two one text stands for all. The two texts differ in nothing but
\* the thread they map to, so the first query of a session is q1.
UserInputs(e, n) == IF e = "mcp" /\ n > 0 THEN Queries ELSE {"q1"}

\* The answers typed at the "Do you approve? (yes/no)" prompt.
Answers == {"yes", " YES ", "no", "y", ""}

\* Every entry point compiled with a checkpointer.
CheckpointerEverywhere(e) ==
    IF e = "mcp" THEN "AsyncSqliteSaver" ELSE "MemorySaver"

\* compile(checkpointer=...) of each entry point.
Checkpointer(e) ==
    CASE e = "graph" -> "none"
      [] e = "react" -> "MemorySaver"
      [] e = "mcp"   -> "AsyncSqliteSaver"

\* config["configurable"]["thread_id"] of each entry point.
thread_id(e, q) ==
    CASE e = "graph" -> "devops-thread-main"
      [] e = "react" -> "devops-agent-main"
      [] e = "mcp"   -> IF q = "q1" THEN "user_thread_1" ELSE "user_thread_2"

Threads == {thread_id(e, q) : e \in Entries, q \in Queries}

(***************************************************************************)
(* Messages.                                                               *)
(***************************************************************************)
SystemMessage == [role |-> "system", content |-> "system_prompt", calls |-> <<>>, call_id |-> 0]
HumanMessage(q) == [role |-> "user", content |-> q, calls |-> <<>>, call_id |-> 0]
AIMessage(tcs) == [role |-> "assistant", content |-> "", calls |-> tcs, call_id |-> 0]
ToolMessage(c, id) == [role |-> "tool", content |-> c, calls |-> <<>>, call_id |-> id]

RejectionText ==
    "Human has rejected the planned tool call. Please reconsider your plan or ask for more details."

\* "Human has rejected" in content: of the contents a message can carry here,
\* only the rejection text contains it.
ContainsHumanHasRejected(c) == c = RejectionText

Last(s) == s[Len(s)]

\* The add_messages reducer: every message here is new, so it appends.
add_messages(left, right) == left \o right

\* The batches a reasoning step may return: 0..MaxBatch calls, each naming a
\* bound tool or a made-up one, with fresh consecutive call ids starting at
\* `first`.
ToolCalls(e, first) ==
    UNION { { [i \in 1..n |-> [id |-> first + i - 1, name |-> f[i].name, args |-> f[i].args]]
              : f \in [1..n -> [name : ToolNames(e), args : ArgValues]] }
            : n \in 0..MaxBatch }

(***************************************************************************)
(* Interactive loop inputs and the checkpointer.                           *)
(***************************************************************************)
\* The `inputs` of graph.invoke at each entry point.
inputs(e, q) ==
    IF e = "graph" THEN <<SystemMessage, HumanMessage(q)>> ELSE <<HumanMessage(q)>>

\* The state an invocation starts from. Without a checkpointer there is none.
\* react_agent.py passes a fresh uuid4 as checkpoint_id in its config, which
\* names no stored checkpoint, so the lookup finds nothing. client.py loads
\* the latest checkpoint of the thread.
get_tuple(e, t) ==
    IF e = "mcp" THEN store[t] ELSE <<>>

\* The checkpoint written after a superstep.
put(e, t, msgs) ==
    IF Checkpointer(e) = "none" THEN store ELSE [store EXCEPT ![t] = msgs]

\* confirmation = input(...).strip().lower()
StripLower(a) == IF a = " YES " THEN "yes" ELSE a

(***************************************************************************)
(* Edges.                                                                  *)
(***************************************************************************)
HasHighRisk(tcs) == \E i \in 1..Len(tcs) : tcs[i].name \in HIGH_RISK_TOOLS

\* Routing on the first call of the batch only.
should_continue_edge_first(msgs) ==
    IF Last(msgs).calls = <<>> THEN "end"
    ELSE IF Last(msgs).calls[1].name \in HIGH_RISK_TOOLS THEN "human_approval"
    ELSE "action"

\* A message without tool calls sends the run back to the agent node.
should_continue_edge_loop(msgs) ==
    IF Last(msgs).calls = <<>> THEN "agent"
    ELSE IF HasHighRisk(Last(msgs).calls) THEN "human_approval"
    ELSE "action"

\* Every batch is sent to the approval node.
should_continue_edge_all(msgs) ==
    IF Last(msgs).calls = <<>> THEN "end" ELSE "human_approval"

\* A message without tool calls is sent to the approval node.
should_continue_edge_no_end(msgs) ==
    IF Last(msgs).calls = <<>> \/ HasHighRisk(Last(msgs).calls) THEN "human_approval"
    ELSE "action"

should_continue_edge(msgs) ==
    IF Last(msgs).calls = <<>> THEN "end"
    ELSE IF HasHighRisk(Last(msgs).calls) THEN "human_approval"
    ELSE "action"

after_approval_edge(msgs) ==
    IF Last(msgs).role = "tool" /\ ContainsHumanHasRejected(Last(msgs).content)
    THEN "agent"
    ELSE "action"

\* The conditional edge of react_agent.py (prebuilt) and client.py (lambda).
tools_condition(msgs) ==
    IF Last(msgs).calls # <<>> THEN "action" ELSE "end"

Route(e, msgs) ==
    IF e = "graph" THEN should_continue_edge(msgs) ELSE tools_condition(msgs)

BatchIndexes(n, msgs) ==
    IF n = "action" THEN 1..Len(Last(msgs).calls) ELSE {}

(***************************************************************************)
(* Nodes.                                                                  *)
(***************************************************************************)
\* The value human_approval_node surfaces through interrupt().
InterruptValue(tcs) ==
    [i \in 1..Len(tcs) |-> [tool_name |-> tcs[i].name, tool_args |-> tcs[i].args]]

\* What human_approval_node returns once interrupt() yields the resume value.
human_approval_update(msgs, is_approved) ==
    IF is_approved
    THEN <<>>
    ELSE <<ToolMessage(RejectionText, Last(msgs).calls[1].id)>>

\* The number of calls of a batch that name no bound tool.
Unknown(e, tcs) == Cardinality({i \in 1..Len(tcs) : tcs[i].name \notin all_tools(e)})

\* Exceptions escaping a tool propagate out of ToolNode.
handle_tool_errors_off == FALSE

\* ToolNode(all_tools) keeps the default handle_tool_errors: an exception a
\* tool raises (argument validation included) becomes the content of the
\* call's ToolMessage.
handle_tool_errors == TRUE

\* The content of the ToolMessage ToolNode builds for one call.
ToolContent(e, tc, bad) ==
    IF tc.name \notin all_tools(e) THEN "Error: not a valid tool"
    ELSE IF bad THEN "Error: tool failed"
    ELSE "result"

ErrorContents == {"Error: not a valid tool", "Error: tool failed"}

\* Tool messages in the order in which the calls completed.
ToolOutputsByCompletion(e, tcs, done, bad) ==
    [k \in 1..Len(done) |-> ToolMessage(ToolContent(e, tcs[done[k]], done[k] \in bad), tcs[done[k]].id)]

\* The batch is given up at its first failing call: only the calls before
\* it get a tool message.
ToolOutputsUntilFailure(e, tcs, done, bad) ==
    LET stop == IF bad = {} THEN Len(tcs)
                ELSE CHOOSE i \in bad : \A j \in bad : i <= j
    IN [i \in 1..stop |-> ToolMessage(ToolContent(e, tcs[i], i \in bad), tcs[i].id)]

\* A call stays in the set of calls to dispatch after it was dispatched.
RemainingKeep(p, i) == p

\* ToolNode runs each call of the batch once.
Remaining(p, i) == p \ {i}

\* ToolNode's output: one ToolMessage per call, in the order of the calls.
ToolOutputs(e, tcs, done, bad) ==
    [i \in 1..Len(tcs) |-> ToolMessage(ToolContent(e, tcs[i], i \in bad), tcs[i].id)]

\* The concurrent callers of run_command: the tool calls of one batch run in
\* ToolNode's thread pool and share ps_runner (factory.py:12).
Callers == {1, 2}

\* The thread that calls close(), as the holder of the lock.
Closer == 3

\* PowerShellRunner.__init__: the child is started, the lock is free, the
\* queues are empty.
InitRunnerVars ==
    /\ process = "running"
    /\ lock = 0
    /\ stdin = <<>>
    /\ cur = 0
    /\ stage = "body"
    /\ emitted = 0
    /\ stdout_queue = <<>>
    /\ stderr_queue = <<>>
    /\ rpc = [c \in Callers |-> "idle"]
    /\ end_marker = [c \in Callers |-> 0]
    /\ end_stdout = [c \in Callers |-> FALSE]
    /\ end_stderr = [c \in Callers |-> FALSE]
    /\ stdout_lines = [c \in Callers |-> <<>>]
    /\ stderr_lines = [c \in Callers |-> <<>>]
    /\ elapsed = [c \in Callers |-> 0]
    /\ nextCmd = 1
    /\ args = [c \in Callers |-> [command_name |-> "none", auto_approve |-> "missing"]]
    /\ returncode = [c \in Callers |-> 0]
    /\ issuer = <<>>
    /\ cpc = "idle"

\* No wait_for_build_completion call is under way; the clock is at 0.
InitJenkinsVars ==
    /\ jpc = "idle"
    /\ jnow = 0
    /\ start_time = 0
    /\ jtimeout = 0
    /\ polls = <<>>
    /\ jreturn = [status |-> "NONE"]

\* An exception: its class and its message, a sequence of pieces of text.
Exception(t, m) == [type |-> t, message |-> m]

NoException == Exception("none", <<>>)

\* src/utils/retry.py is not imported yet; no wrapped call is under way.
InitRetryVars ==
    /\ RETRYABLE_GOOGLE_EXCEPTIONS = {}
    /\ NON_RETRYABLE_GOOGLE_EXCEPTIONS = {}
    /\ gpc = "unloaded"
    /\ gnow = 0
    /\ gstart = 0
    /\ attempts = <<>>
    /\ exc = NoException
    /\ verdict = FALSE

\* Python's None, as the value of self._model.
None == 0

\* The provider objects of the process.
Providers == {"gemini", "llama"}

\* LLMProvider.__init__: self._model = None.
InitProviderVars ==
    /\ self_model = [p \in Providers |-> None]
    /\ get_calls = <<>>
    /\ instances = 0

TypeOK ==
    /\ entry \in Entries
    /\ pc \in {"input", "run", "confirm", "resume", "exit"}
    /\ node \in {"idle", "agent", "action", "human_approval", "end", "aborted"}
    /\ thread \in Threads
    /\ decision \in {"none", "approved", "rejected"}
    /\ nextId \in 1..(MaxCalls + 1)
    /\ turns \in 0..MaxTurns
    /\ steps \in 0..RecursionLimit
    /\ failed \subseteq 1..MaxBatch
    /\ faults \in 0..MaxFaults

Init ==
    /\ entry \in Entries
    /\ pc = "input"
    /\ node = "idle"
    /\ thread = thread_id(entry, "q1")
    /\ messages = <<>>
    /\ store = [t \in Threads |-> <<>>]
    /\ turnStart = [t \in Threads |-> <<>>]
    /\ pending = {}
    /\ completed = <<>>
    /\ failed = {}
    /\ invoked = EmptyBag
    /\ decided = <<>>
    /\ exposed = <<>>
    /\ decision = "none"
    /\ decisions = 0
    /\ suspensions = 0
    /\ nextId = 1
    /\ turns = 0
    /\ steps = 0
    /\ lastError = "none"
    /\ faults = 0
    /\ InitRunnerVars
    /\ InitJenkinsVars
    /\ InitRetryVars
    /\ InitProviderVars

Running == pc \in {"run", "resume"}

(***************************************************************************)
(* The interactive loop reads a user message and invokes the graph.        *)
(***************************************************************************)
SubmitUserMessage(q) ==
    /\ pc = "input"
    /\ turns < MaxTurns
    /\ LET t == thread_id(entry, q)
           m == add_messages(get_tuple(entry, t), inputs(entry, q))
       IN /\ thread' = t
          /\ messages' = m
          /\ store' = put(entry, t, m)
    /\ pc' = "run"
    /\ node' = "agent"
    /\ turns' = turns + 1
    /\ steps' = 0
    /\ pending' = {}
    /\ completed' = <<>>
    /\ failed' = {}
    /\ exposed' = <<>>
    /\ decision' = "none"
    /\ lastError' = "none"
    /\ turnStart' = store
    /\ UNCHANGED <<entry, invoked, decided, decisions, suspensions, nextId, faults>>
    /\ UNCHANGED <<rvars, xvars>>

\* call_model_node (graph.py) / the agent node (react_agent.py) / call_model
\* (client.py), followed by the node's conditional edge.
call_model_node ==
    /\ Running
    /\ node = "agent"
    /\ steps < RecursionLimit
    /\ \E tcs \in ToolCalls(entry, nextId) :
          /\ nextId + Len(tcs) - 1 <= MaxCalls
          /\ faults + Unknown(entry, tcs) <= MaxFaults
          /\ faults' = faults + Unknown(entry, tcs)
          /\ LET m == add_messages(messages, <<AIMessage(tcs)>>)
             IN /\ messages' = m
                /\ store' = put(entry, thread, m)
                /\ node' = Route(entry, m)
                /\ pending' = BatchIndexes(Route(entry, m), m)
          /\ nextId' = nextId + Len(tcs)
    /\ completed' = <<>>
    /\ failed' = {}
    /\ steps' = steps + 1
    /\ UNCHANGED <<entry, turnStart, pc, thread, invoked, decided, exposed, decision,
                   decisions, suspensions, turns, lastError>>
    /\ UNCHANGED <<rvars, xvars>>

\* The model call raises: the invocation fails and the loop's except clause
\* reports it.
ModelFails ==
    /\ Running
    /\ node = "agent"
    /\ steps < RecursionLimit
    /\ pc' = "input"
    /\ node' = "aborted"
    /\ lastError' = "model_failure"
    /\ UNCHANGED <<entry, turnStart, failed, faults, thread, messages, store, pending, completed, invoked,
                   decided, exposed, decision, decisions, suspensions, nextId,
                   turns, steps>>
    /\ UNCHANGED <<rvars, xvars>>

\* ToolNode handles one call of the batch; the calls of a batch run
\* concurrently, so they are dispatched and complete in any order. A call
\* that names no bound tool is answered without any provider being invoked.
\* Otherwise the call is handed to its provider, which returns a result or
\* fails (it raises, or its arguments are rejected).
RunTool(i) ==
    /\ Running
    /\ node = "action"
    /\ steps < RecursionLimit
    /\ i \in pending
    /\ IF Last(messages).calls[i].name \notin all_tools(entry)
       THEN /\ failed' = failed \cup {i}
            /\ UNCHANGED <<invoked, faults>>
       ELSE /\ invoked' = invoked (+) SetToBag({Last(messages).calls[i]})
            /\ \E raises \in BOOLEAN :
                  /\ raises => faults < MaxFaults
                  /\ failed' = IF raises THEN failed \cup {i} ELSE failed
                  /\ faults' = IF raises THEN faults + 1 ELSE faults
    /\ pending' = Remaining(pending, i)
    /\ completed' = Append(completed, i)
    /\ UNCHANGED <<entry, turnStart, pc, node, thread, messages, store, decided, exposed,
                   decision, decisions, suspensions, nextId, turns, steps,
                   lastError>>
    /\ UNCHANGED <<rvars, xvars>>

\* ToolNode returns once every call has completed; the edge action -> agent.
\* With handle_tool_errors off, an exception raised by a tool would leave the
\* node and end the invocation in the loop's except clause.
ToolNodeReturns ==
    /\ Running
    /\ node = "action"
    /\ steps < RecursionLimit
    /\ pending = {}
    /\ LET tcs == Last(messages).calls
           raised == {i \in failed : tcs[i].name \in all_tools(entry)}
           m == add_messages(messages, ToolOutputs(entry, tcs, completed, failed))
       IN IF raised # {} /\ ~handle_tool_errors
          THEN /\ pc' = "input"
               /\ node' = "aborted"
               /\ lastError' = "tool_failure"
               /\ UNCHANGED <<messages, store, steps>>
          ELSE /\ messages' = m
               /\ store' = put(entry, thread, m)
               /\ node' = "agent"
               /\ steps' = steps + 1
               /\ UNCHANGED <<pc, lastError>>
    /\ UNCHANGED <<entry, turnStart, thread, pending, completed, failed, invoked,
                   decided, exposed, decision, decisions, suspensions, nextId,
                   turns, faults>>
    /\ UNCHANGED <<rvars, xvars>>

\* human_approval_node up to interrupt(): the invocation returns to the loop
\* with "__interrupt__" in its result. The first invocation's result is
\* shown at the approval prompt; an interrupt in the result of the resumed
\* invocation is skipped (line 434) and the loop asks for the next user
\* message.
human_approval_node ==
    /\ Running
    /\ node = "human_approval"
    /\ steps < RecursionLimit
    /\ IF Last(messages).calls = <<>>
       THEN /\ node' = after_approval_edge(messages)
            /\ pending' = BatchIndexes(after_approval_edge(messages), messages)
            /\ steps' = steps + 1
            /\ UNCHANGED <<pc, exposed, suspensions>>
       ELSE /\ suspensions' = suspensions + 1
            /\ IF pc = "run"
               THEN /\ pc' = "confirm"
                    /\ exposed' = InterruptValue(Last(messages).calls)
               ELSE /\ pc' = "input"
                    /\ exposed' = exposed
            /\ UNCHANGED <<node, pending, steps>>
    /\ UNCHANGED <<entry, turnStart, failed, faults, thread, messages, store, completed, invoked, decided,
                   decision, decisions, nextId, turns, lastError>>
    /\ UNCHANGED <<rvars, xvars>>

\* The approver answers and the loop invokes the graph with
\* Command(resume=...). A graph compiled without a checkpointer has nothing
\* to resume from: the invocation raises ("Cannot use Command(resume=...)
\* without checkpointer") and the except clause reports it. With a
\* checkpointer the node runs again, interrupt() returns the resume value and
\* after_approval_edge routes.
Confirm(answer) ==
    /\ pc = "confirm"
    /\ LET is_approved == (StripLower(answer) = "yes")
           tcs == Last(messages).calls
           m == add_messages(messages, human_approval_update(messages, is_approved))
       IN /\ decision' = IF is_approved THEN "approved" ELSE "rejected"
          /\ decided' = Append(decided, [batch |-> tcs, approved |-> is_approved])
          /\ IF Checkpointer(entry) = "none"
             THEN /\ pc' = "input"
                  /\ node' = "aborted"
                  /\ lastError' = "resume_without_checkpointer"
                  /\ UNCHANGED <<messages, store, pending, steps>>
             ELSE /\ pc' = "resume"
                  /\ messages' = m
                  /\ store' = put(entry, thread, m)
                  /\ node' = after_approval_edge(m)
                  /\ pending' = BatchIndexes(after_approval_edge(m), m)
                  /\ steps' = 1
                  /\ lastError' = "none"
    /\ decisions' = decisions + 1
    /\ UNCHANGED <<entry, turnStart, failed, faults, thread, completed, invoked, exposed, suspensions,
                   nextId, turns>>
    /\ UNCHANGED <<rvars, xvars>>

\* The invocation reaches END and returns; the loop prints the last message.
InvokeReturns ==
    /\ Running
    /\ node = "end"
    /\ pc' = "input"
    /\ UNCHANGED <<entry, turnStart, failed, faults, node, thread, messages, store, pending, completed,
                   invoked, decided, exposed, decision, decisions, suspensions,
                   nextId, turns, steps, lastError>>
    /\ UNCHANGED <<rvars, xvars>>

\* The superstep budget is used up with a node still to run:
\* GraphRecursionError reaches the loop's except clause.
OutOfSteps ==
    /\ Running
    /\ node \in {"agent", "action", "human_approval"}
    /\ steps >= RecursionLimit
    /\ pc' = "input"
    /\ node' = "aborted"
    /\ lastError' = "recursion_limit"
    /\ UNCHANGED <<entry, turnStart, failed, faults, thread, messages, store, pending, completed, invoked,
                   decided, exposed, decision, decisions, suspensions, nextId,
                   turns, steps>>
    /\ UNCHANGED <<rvars, xvars>>

\* The user types exit / quit / bye.
Exit ==
    /\ pc = "input"
    /\ pc' = "exit"
    /\ UNCHANGED <<entry, turnStart, failed, faults, node, thread, messages, store, pending, completed,
                   invoked, decided, exposed, decision, decisions, suspensions,
                   nextId, turns, steps, lastError>>
    /\ UNCHANGED <<rvars, xvars>>

Next ==
    \/ \E q \in UserInputs(entry, turns) : SubmitUserMessage(q)
    \/ call_model_node
    \/ ModelFails
    \/ \E i \in 1..MaxBatch : RunTool(i)
    \/ ToolNodeReturns
    \/ human_approval_node
    \/ \E a \in Answers : Confirm(a)
    \/ InvokeReturns
    \/ OutOfSteps
    \/ Exit

Spec == Init /\ [][Next]_vars

(***************************************************************************)
(* The shared PowerShell session, tools/powershell/runner.py. Callers run  *)
(* run_command concurrently; the child process reads the commands from its *)
(* stdin one after the other and writes to its two pipes; the reader       *)
(* threads (_enqueue_output) pass every line on to the queues.             *)
(***************************************************************************)
Line(k, m) == [cmd |-> k, marker |-> m, failed |-> FALSE]

\* A line of command k whose text holds "Error:" or "failed".
FailedLine(k) == [cmd |-> k, marker |-> FALSE, failed |-> TRUE]

\* Line 102: 1 if "Error:" in stderr or "failed" in stderr.lower() else 0.
Heuristic(lines) == IF \E i \in 1..Len(lines) : lines[i].failed THEN 1 ELSE 0

\* The arguments of auto_approve a call can carry: True, False, None, the
\* integer 1, or no such argument.
AutoApproveValues == {"True", "False", "None", "1", "missing"}

\* The powershell tools and their keyword arguments.
ToolInputs ==
    {[command_name |-> "git_status", auto_approve |-> "missing"]} \cup
    {[command_name |-> "tofu_apply", auto_approve |-> v] : v \in AutoApproveValues}

\* Python truthiness of the argument.
IsTruthy(v) == v \in {"True", "1"}

\* kwargs.get("auto_approve") is True
IsTrue(v) == v = "True"

\* _build_command raises ValueError (lines 44-48).
build_command_raises(kw) == kw.command_name = "tofu_apply" /\ ~IsTrue(kw.auto_approve)

\* PowerShellTool._run up to the call of run_command: _build_command
\* either returns the command or raises, and then the except clause returns
\* the "Error during tool execution" string.
PowerShellTool_run(c, kw) ==
    /\ rpc[c] \in {"idle", "returned", "raised", "refused"}
    /\ nextCmd <= MaxCmds
    /\ args' = [args EXCEPT ![c] = kw]
    /\ rpc' = [rpc EXCEPT ![c] = IF build_command_raises(kw) THEN "refused" ELSE "called"]
    /\ UNCHANGED <<process, lock, stdin, cur, stage, emitted, stdout_queue, stderr_queue,
                   end_marker, end_stdout, end_stderr, stdout_lines, stderr_lines,
                   elapsed, nextCmd>>
    /\ UNCHANGED <<returncode, issuer, cpc>>
    /\ UNCHANGED <<ovars, jvars, gvars, pvars>>

\* `end_marker in line`: the markers are fresh uuids, so only the marker
\* lines of this very command contain it.
IsEndMarker(line, k) == line.marker /\ line.cmd = k

\* run_command: `with self.lock:` is entered.
run_command_enter(c) ==
    /\ rpc[c] = "called"
    /\ nextCmd <= MaxCmds
    /\ lock = 0
    /\ lock' = c
    /\ rpc' = [rpc EXCEPT ![c] = "locked"]
    /\ UNCHANGED <<process, stdin, cur, stage, emitted, stdout_queue, stderr_queue,
                   end_marker, end_stdout, end_stderr, stdout_lines, stderr_lines,
                   elapsed, nextCmd>>
    /\ UNCHANGED <<ovars, xvars>>

\* Lines 52-72: a fresh end marker, the command is written to stdin and
\* flushed, the locals are initialised. Writing to the pipe of a child that
\* has exited raises, which leaves the with block.
run_command_write(c) ==
    /\ rpc[c] = "locked"
    /\ IF process = "exited"
       THEN /\ rpc' = [rpc EXCEPT ![c] = "raised"]
            /\ lock' = 0
            /\ UNCHANGED <<stdin, end_marker, end_stdout, end_stderr, stdout_lines,
                           stderr_lines, elapsed, nextCmd, issuer>>
       ELSE /\ rpc' = [rpc EXCEPT ![c] = "waiting"]
            /\ end_marker' = [end_marker EXCEPT ![c] = nextCmd]
            /\ nextCmd' = nextCmd + 1
            /\ stdin' = Append(stdin, nextCmd)
            /\ issuer' = Append(issuer, c)
            /\ end_stdout' = [end_stdout EXCEPT ![c] = FALSE]
            /\ end_stderr' = [end_stderr EXCEPT ![c] = FALSE]
            /\ stdout_lines' = [stdout_lines EXCEPT ![c] = <<>>]
            /\ stderr_lines' = [stderr_lines EXCEPT ![c] = <<>>]
            /\ elapsed' = [elapsed EXCEPT ![c] = 0]
            /\ lock' = lock
    /\ UNCHANGED <<process, cur, stage, emitted, stdout_queue, stderr_queue>>
    /\ UNCHANGED <<args, returncode, cpc>>
    /\ UNCHANGED <<ovars, jvars, gvars, pvars>>

\* One iteration of `while not (end_stdout and end_stderr)` (lines 74-96):
\* get_nowait on each queue, then the test of both flags; when both are set
\* the loop is left, the result is built and the lock released. Nothing in
\* the loop looks at `timeout` or at the state of the child.
run_command_poll(c) ==
    /\ rpc[c] = "waiting"
    /\ LET gotOut == stdout_queue # <<>>
           gotErr == stderr_queue # <<>>
           eo == IF gotOut /\ IsEndMarker(Head(stdout_queue), end_marker[c])
                 THEN TRUE ELSE end_stdout[c]
           ee == IF gotErr /\ IsEndMarker(Head(stderr_queue), end_marker[c])
                 THEN TRUE ELSE end_stderr[c]
           errLines == IF gotErr /\ ~IsEndMarker(Head(stderr_queue), end_marker[c])
                       THEN Append(stderr_lines[c], Head(stderr_queue))
                       ELSE stderr_lines[c]
       IN /\ stdout_queue' = IF gotOut THEN Tail(stdout_queue) ELSE stdout_queue
          /\ stderr_queue' = IF gotErr THEN Tail(stderr_queue) ELSE stderr_queue
          /\ stdout_lines' =
                IF gotOut /\ ~IsEndMarker(Head(stdout_queue), end_marker[c])
                THEN [stdout_lines EXCEPT ![c] = Append(@, Head(stdout_queue))]
                ELSE stdout_lines
          /\ stderr_lines' = [stderr_lines EXCEPT ![c] = errLines]
          /\ end_stdout' = [end_stdout EXCEPT ![c] = eo]
          /\ end_stderr' = [end_stderr EXCEPT ![c] = ee]
          /\ IF eo /\ ee
             THEN /\ rpc' = [rpc EXCEPT ![c] = "returned"]
                  /\ returncode' = [returncode EXCEPT ![c] = Heuristic(errLines)]
                  /\ lock' = 0
             ELSE UNCHANGED <<rpc, lock, returncode>>
    /\ UNCHANGED <<process, stdin, cur, stage, emitted, end_marker, elapsed, nextCmd>>
    /\ UNCHANGED <<args, issuer, cpc>>
    /\ UNCHANGED <<ovars, jvars, gvars, pvars>>

\* Time passes for a caller inside the loop.
Tick(c) ==
    /\ rpc[c] = "waiting"
    /\ elapsed[c] < Timeout
    /\ elapsed' = [elapsed EXCEPT ![c] = @ + 1]
    /\ UNCHANGED <<process, lock, stdin, cur, stage, emitted, stdout_queue,
                   stderr_queue, rpc, end_marker, end_stdout, end_stderr,
                   stdout_lines, stderr_lines, nextCmd>>
    /\ UNCHANGED <<ovars, xvars>>

\* The child starts on the next command on its stdin.
ProcessReads ==
    /\ process = "running"
    /\ cur = 0
    /\ stdin # <<>>
    /\ cur' = Head(stdin)
    /\ stdin' = Tail(stdin)
    /\ stage' = "body"
    /\ emitted' = 0
    /\ UNCHANGED <<process, lock, stdout_queue, stderr_queue, rpc, end_marker,
                   end_stdout, end_stderr, stdout_lines, stderr_lines, elapsed,
                   nextCmd>>
    /\ UNCHANGED <<ovars, xvars>>

\* {command} writes a line to one of its streams.
ProcessWrites(stream, bad) ==
    /\ process = "running"
    /\ cur # 0
    /\ stage = "body"
    /\ emitted < MaxLines
    /\ bad => stream = "stderr"
    /\ emitted' = emitted + 1
    /\ IF stream = "stdout"
       THEN /\ stdout_queue' = Append(stdout_queue, Line(cur, FALSE))
            /\ UNCHANGED stderr_queue
       ELSE /\ stderr_queue' = Append(stderr_queue, IF bad THEN FailedLine(cur) ELSE Line(cur, FALSE))
            /\ UNCHANGED stdout_queue
    /\ UNCHANGED <<process, lock, stdin, cur, stage, rpc, end_marker, end_stdout,
                   end_stderr, stdout_lines, stderr_lines, elapsed, nextCmd>>
    /\ UNCHANGED <<ovars, xvars>>

\* Write-Output "{end_marker} EXIT_CODE:..." (line 59).
ProcessMarksStdout ==
    /\ process = "running"
    /\ cur # 0
    /\ stage = "body"
    /\ stdout_queue' = Append(stdout_queue, Line(cur, TRUE))
    /\ stage' = "marked_out"
    /\ UNCHANGED <<process, lock, stdin, cur, emitted, stderr_queue, rpc, end_marker,
                   end_stdout, end_stderr, stdout_lines, stderr_lines, elapsed,
                   nextCmd>>
    /\ UNCHANGED <<ovars, xvars>>

\* Write-Error "{end_marker} EXIT_CODE:..." (line 60); the command is done.
\* powershell.exe (Windows PowerShell 5.1) writes an error record as several
\* lines: the line with the message, then "+ CategoryInfo ..." and
\* "+ FullyQualifiedErrorId ..."; other hosts write one line. The lines
\* after the one with the marker are `trailing`.
ProcessMarksStderr(trailing) ==
    /\ process = "running"
    /\ cur # 0
    /\ stage = "marked_out"
    /\ stderr_queue' = IF trailing
                       THEN stderr_queue \o <<Line(cur, TRUE), Line(cur, FALSE)>>
                       ELSE Append(stderr_queue, Line(cur, TRUE))
    /\ cur' = 0
    /\ stage' = "body"
    /\ UNCHANGED <<process, lock, stdin, emitted, stdout_queue, rpc, end_marker,
                   end_stdout, end_stderr, stdout_lines, stderr_lines, elapsed,
                   nextCmd>>
    /\ UNCHANGED <<ovars, xvars>>

\* The child exits (the command was `exit`, or it crashed or was killed):
\* it writes nothing any more.
ProcessExits ==
    /\ process = "running"
    /\ process' = "exited"
    /\ UNCHANGED <<lock, stdin, cur, stage, emitted, stdout_queue, stderr_queue,
                   rpc, end_marker, end_stdout, end_stderr, stdout_lines,
                   stderr_lines, elapsed, nextCmd>>
    /\ UNCHANGED <<ovars, xvars>>

\* The command `exit` on stdin.
ExitCmd == 0

\* close(): `if self.process and self.process.poll() is None` (line 112).
close_check ==
    /\ cpc = "idle"
    /\ cpc' = IF process = "running" THEN "entering" ELSE "done"
    /\ UNCHANGED <<args, returncode, issuer>>
    /\ UNCHANGED <<ovars, rvars, jvars, gvars, pvars>>

\* close(): `with self.lock:` is entered (line 113).
close_enter ==
    /\ cpc = "entering"
    /\ lock = 0
    /\ lock' = Closer
    /\ cpc' = "locked"
    /\ UNCHANGED <<process, stdin, cur, stage, emitted, stdout_queue, stderr_queue,
                   rpc, end_marker, end_stdout, end_stderr, stdout_lines, stderr_lines,
                   elapsed, nextCmd>>
    /\ UNCHANGED <<args, returncode, issuer>>
    /\ UNCHANGED <<ovars, jvars, gvars, pvars>>

\* close(): "exit" is written (a failure is swallowed), the child is
\* terminated and waited for, the lock is released (lines 114-125).
close_terminate ==
    /\ cpc = "locked"
    /\ stdin' = IF process = "running" THEN Append(stdin, ExitCmd) ELSE stdin
    /\ process' = "exited"
    /\ lock' = 0
    /\ cpc' = "done"
    /\ UNCHANGED <<cur, stage, emitted, stdout_queue, stderr_queue,
                   rpc, end_marker, end_stdout, end_stderr, stdout_lines, stderr_lines,
                   elapsed, nextCmd>>
    /\ UNCHANGED <<args, returncode, issuer>>
    /\ UNCHANGED <<ovars, jvars, gvars, pvars>>

NextRunner ==
    \/ \E c \in Callers, kw \in ToolInputs : PowerShellTool_run(c, kw)
    \/ \E c \in Callers : run_command_enter(c)
    \/ \E c \in Callers : run_command_write(c)
    \/ \E c \in Callers : run_command_poll(c)
    \/ \E c \in Callers : Tick(c)
    \/ ProcessReads
    \/ \E stream \in {"stdout", "stderr"}, bad \in BOOLEAN : ProcessWrites(stream, bad)
    \/ ProcessMarksStdout
    \/ \E trailing \in BOOLEAN : ProcessMarksStderr(trailing)
    \/ ProcessExits
    \/ close_check
    \/ close_enter
    \/ close_terminate

\* The runner as graph.py creates it (factory.py:12, ps_runner), with the
\* orchestrator left where it starts.
InitRunner == Init /\ entry = "graph"

SpecRunner == InitRunner /\ [][NextRunner]_vars

\* The threads of the callers and the child are scheduled: a step that can
\* be taken is taken eventually.
FairRunner == SpecRunner /\ WF_vars(NextRunner)

(***************************************************************************)
(* PowerShellTool._run on the shared session, with a child that answers    *)
(* every command with its two end markers.                                 *)
(***************************************************************************)
NextTool ==
    \/ \E c \in Callers, kw \in ToolInputs : PowerShellTool_run(c, kw)
    \/ \E c \in Callers : run_command_enter(c)
    \/ \E c \in Callers : run_command_write(c)
    \/ \E c \in Callers : run_command_poll(c)
    \/ ProcessReads
    \/ ProcessMarksStdout
    \/ \E trailing \in BOOLEAN : ProcessMarksStderr(trailing)

SpecTool == InitRunner /\ [][NextTool]_vars

(***************************************************************************)
(* EnhancedJenkinsClient.wait_for_build_completion and its async variant,  *)
(* tools/jenkins/factory.py. Both run the same loop; the clock counts      *)
(* ticks of one sleep(10).                                                 *)
(***************************************************************************)
\* The `timeout` arguments tried, in ticks.
Timeouts == 0..MaxTimeout

\* One time.sleep(10).
SleepTicks == 1

\* How long one get_build_info request may take (the request's own timeout
\* bounds it).
RequestTicks == {0, 1}

\* What get_build_info returns: the build's JSON with or without the
\* "building" key, or an exception.
Responses ==
    {[raises |-> FALSE, building |-> b, result |-> r] :
        b \in {"true", "false", "missing"}, r \in {"SUCCESS", "FAILURE", "null"}}
    \cup {[raises |-> TRUE, building |-> "missing", result |-> "null"]}

\* build_info.get("building", True)
GetBuilding(resp) == IF resp.building = "false" THEN FALSE ELSE TRUE

\* The loop test, with the limit included.
TimeLeftInclusive(now, start, timeout) == now - start <= timeout

\* while time.time() - start_time < timeout
TimeLeft(now, start, timeout) == now - start < timeout

\* start_time = time.time()
wait_for_build_completion(timeout) ==
    /\ jpc = "idle"
    /\ jtimeout' = timeout
    /\ start_time' = jnow
    /\ jpc' = "test"
    /\ UNCHANGED <<jnow, polls, jreturn>>
    /\ UNCHANGED <<ovars, rvars, gvars, pvars, tvars>>

\* The loop test; when it fails the function returns TIMEOUT.
LoopTest ==
    /\ jpc = "test"
    /\ IF TimeLeft(jnow, start_time, jtimeout)
       THEN /\ jpc' = "get"
            /\ UNCHANGED jreturn
       ELSE /\ jpc' = "done"
            /\ jreturn' = [status |-> "TIMEOUT"]
    /\ UNCHANGED <<jnow, start_time, jtimeout, polls>>
    /\ UNCHANGED <<ovars, rvars, gvars, pvars, tvars>>

\* build_info = self.get_build_info(...) and the test of "building": the
\* function returns COMPLETED with this response's result, or ERROR when
\* the request raised, or goes to sleep.
get_build_info(resp, d) ==
    /\ jpc = "get"
    /\ polls' = Append(polls, [at |-> jnow, resp |-> resp])
    /\ jnow' = jnow + d
    /\ IF resp.raises
       THEN /\ jpc' = "done"
            /\ jreturn' = [status |-> "ERROR"]
       ELSE IF ~GetBuilding(resp)
       THEN /\ jpc' = "done"
            /\ jreturn' = [status |-> "COMPLETED", result |-> resp.result]
       ELSE /\ jpc' = "sleep"
            /\ UNCHANGED jreturn
    /\ UNCHANGED <<start_time, jtimeout>>
    /\ UNCHANGED <<ovars, rvars, gvars, pvars, tvars>>

\* time.sleep(10)
Sleep ==
    /\ jpc = "sleep"
    /\ jnow' = jnow + SleepTicks
    /\ jpc' = "test"
    /\ UNCHANGED <<start_time, jtimeout, polls, jreturn>>
    /\ UNCHANGED <<ovars, rvars, gvars, pvars, tvars>>

NextJenkins ==
    \/ \E t \in Timeouts : wait_for_build_completion(t)
    \/ LoopTest
    \/ \E resp \in Responses, d \in RequestTicks : get_build_info(resp, d)
    \/ Sleep

InitJenkins == Init /\ entry = "graph"

SpecJenkins == InitJenkins /\ [][NextJenkins]_vars

\* The calling thread keeps running.
FairJenkins == SpecJenkins /\ WF_vars(NextJenkins)

(***************************************************************************)
(* src/utils/retry.py: is_retryable_exception and the tenacity decorator   *)
(* gemini_llm_retry. The clock counts ticks of 60 s.                       *)
(***************************************************************************)
GoogleNonRetryable == {"PermissionDenied", "NotFound", "InvalidArgument", "Unauthenticated"}

GoogleRetryable ==
    {"ResourceExhausted", "ServiceUnavailable", "InternalServerError", "Aborted",
     "DeadlineExceeded"}

\* Exception classes outside both tuples: a Google API exception that is
\* listed in neither, the builtin TimeoutError, and any other exception.
GoogleOther == {"TooManyRequests"}

Builtin == {"TimeoutError", "ValueError"}

\* The messages tried. A message is a sequence of pieces of text, so that
\* lower-casing and substring search have something to work on.
Messages ==
    {<<>>, <<"quota">>, <<"rate", " ", "limit">>, <<"Rate", " ", "LIMIT", "quota">>,
     <<"rate", "limit">>, <<"limit", " ", "rate">>,
     <<"quota", "Resource has been exhausted">>}

\* The exceptions a wrapped call can raise: the Google classes exist only
\* when google-api-core is installed.
Raisable(installed) ==
    {Exception(t, m) :
        t \in Builtin \cup (IF installed
                            THEN GoogleNonRetryable \cup GoogleRetryable \cup GoogleOther
                            ELSE {}),
        m \in Messages}

\* str.lower() of one piece of text.
LowerPiece(w) ==
    CASE w = "Rate" -> "rate"
      [] w = "LIMIT" -> "limit"
      [] w = "Resource has been exhausted" -> "resource has been exhausted"
      [] OTHER -> w

\* str(e).lower()
Lower(m) == [i \in 1..Len(m) |-> LowerPiece(m[i])]

\* sub in m
Contains(m, sub) ==
    \E i \in 1..(Len(m) - Len(sub) + 1) : SubSeq(m, i, i + Len(sub) - 1) = sub

\* isinstance(e, classes)
IsInstance(e, classes) == e.type \in classes

\* The message is looked at before the class.
is_retryable_exception_message_first(e) ==
    IF \/ Contains(Lower(e.message), <<"rate", " ", "limit">>)
       \/ Contains(Lower(e.message), <<"resource has been exhausted">>)
    THEN TRUE
    ELSE IF IsInstance(e, NON_RETRYABLE_GOOGLE_EXCEPTIONS) THEN FALSE
    ELSE IsInstance(e, RETRYABLE_GOOGLE_EXCEPTIONS) \/ IsInstance(e, {"TimeoutError"})

is_retryable_exception(e) ==
    IF IsInstance(e, NON_RETRYABLE_GOOGLE_EXCEPTIONS) THEN FALSE
    ELSE IF IsInstance(e, RETRYABLE_GOOGLE_EXCEPTIONS) \/ IsInstance(e, {"TimeoutError"})
    THEN TRUE
    ELSE IF \/ Contains(Lower(e.message), <<"rate", " ", "limit">>)
            \/ Contains(Lower(e.message), <<"resource has been exhausted">>)
    THEN TRUE
    ELSE FALSE

\* How long one attempt of the wrapped call takes.
AttemptTicks == {1, 2}

\* wait_random_exponential(multiplier=1, max=60): between 0 and 60 s.
WaitTicks == {0, 1}

\* stop_after_delay(300): seconds_since_start >= max_delay, measured when
\* the attempt ended.
stop_after_delay(now, start) == now - start >= StopDelay

\* Lines 25-46: the module is imported, with or without google-api-core.
import_retry(installed) ==
    /\ gpc = "unloaded"
    /\ RETRYABLE_GOOGLE_EXCEPTIONS' = IF installed THEN GoogleRetryable ELSE {}
    /\ NON_RETRYABLE_GOOGLE_EXCEPTIONS' = IF installed THEN GoogleNonRetryable ELSE {}
    /\ gpc' = "idle"
    /\ UNCHANGED <<gnow, gstart, attempts, exc, verdict>>
    /\ UNCHANGED <<ovars, rvars, jvars, pvars, tvars>>

\* A function wrapped by gemini_llm_retry is called: the first attempt.
call_wrapped ==
    /\ gpc = "idle"
    /\ gstart' = gnow
    /\ attempts' = <<>>
    /\ gpc' = "attempt"
    /\ UNCHANGED <<RETRYABLE_GOOGLE_EXCEPTIONS, NON_RETRYABLE_GOOGLE_EXCEPTIONS,
                   gnow, exc, verdict>>
    /\ UNCHANGED <<ovars, rvars, jvars, pvars, tvars>>

\* One attempt returns: the retrying object returns its result.
AttemptReturns(d) ==
    /\ gpc = "attempt"
    /\ gnow' = gnow + d
    /\ attempts' = Append(attempts, [at |-> gnow, ok |-> TRUE])
    /\ exc' = NoException
    /\ gpc' = "returned"
    /\ UNCHANGED <<RETRYABLE_GOOGLE_EXCEPTIONS, NON_RETRYABLE_GOOGLE_EXCEPTIONS,
                   gstart, verdict>>
    /\ UNCHANGED <<ovars, rvars, jvars, pvars, tvars>>

\* One attempt raises.
AttemptRaises(e, d) ==
    /\ gpc = "attempt"
    /\ gnow' = gnow + d
    /\ attempts' = Append(attempts, [at |-> gnow, ok |-> FALSE])
    /\ exc' = e
    /\ gpc' = "failed"
    /\ UNCHANGED <<RETRYABLE_GOOGLE_EXCEPTIONS, NON_RETRYABLE_GOOGLE_EXCEPTIONS,
                   gstart, verdict>>
    /\ UNCHANGED <<ovars, rvars, jvars, pvars, tvars>>

\* tenacity after a failed attempt: retry_if_exception(is_retryable_exception)
\* decides; when it says no the exception is raised to the caller; when it
\* says yes and the stop condition holds RetryError is raised; otherwise the
\* retrying object sleeps.
AfterFailure ==
    /\ gpc = "failed"
    /\ verdict' = is_retryable_exception(exc)
    /\ gpc' = IF ~is_retryable_exception(exc) THEN "raised"
              ELSE IF stop_after_delay(gnow, gstart) THEN "retry_error"
              ELSE "sleep"
    /\ UNCHANGED <<RETRYABLE_GOOGLE_EXCEPTIONS, NON_RETRYABLE_GOOGLE_EXCEPTIONS,
                   gnow, gstart, attempts, exc>>
    /\ UNCHANGED <<ovars, rvars, jvars, pvars, tvars>>

\* The sleep before the next attempt.
WaitBeforeRetry(w) ==
    /\ gpc = "sleep"
    /\ gnow' = gnow + w
    /\ gpc' = "attempt"
    /\ UNCHANGED <<RETRYABLE_GOOGLE_EXCEPTIONS, NON_RETRYABLE_GOOGLE_EXCEPTIONS,
                   gstart, attempts, exc, verdict>>
    /\ UNCHANGED <<ovars, rvars, jvars, pvars, tvars>>

NextRetry ==
    \/ \E installed \in BOOLEAN : import_retry(installed)
    \/ call_wrapped
    \/ \E d \in AttemptTicks : AttemptReturns(d)
    \/ \E e \in Raisable(RETRYABLE_GOOGLE_EXCEPTIONS # {}), d \in AttemptTicks : AttemptRaises(e, d)
    \/ AfterFailure
    \/ \E w \in WaitTicks : WaitBeforeRetry(w)

InitRetry == Init /\ entry = "graph"

SpecRetry == InitRetry /\ [][NextRetry]_vars

(***************************************************************************)
(* llms/base.py: LLMProvider.get_model.                                    *)
(***************************************************************************)
\* What _create_model can raise: LLMProviderError when the package is
\* missing (providers.py), any other exception from the constructor.
CreateErrors == {"LLMProviderError", "Exception"}

NeedsCreationAlways(m) == TRUE

\* if self._model is None
NeedsCreation(m) == m = None

\* get_model with _create_model returning a new instance.
get_model_creates(p) ==
    /\ Len(get_calls) < MaxGetCalls
    /\ NeedsCreation(self_model[p])
    /\ instances' = instances + 1
    /\ self_model' = [self_model EXCEPT ![p] = instances + 1]
    /\ get_calls' = Append(get_calls,
          [provider |-> p, before |-> self_model[p], created |-> TRUE,
           raised |-> "none", cause |-> "none", returned |-> instances + 1])
    /\ UNCHANGED <<ovars, rvars, jvars, gvars, tvars>>

\* get_model with _create_model raising: LLMProviderError is raised.
get_model_fails(p, err) ==
    /\ Len(get_calls) < MaxGetCalls
    /\ NeedsCreation(self_model[p])
    /\ get_calls' = Append(get_calls,
          [provider |-> p, before |-> self_model[p], created |-> TRUE,
           raised |-> "LLMProviderError", cause |-> err, returned |-> None])
    /\ UNCHANGED <<self_model, instances>>
    /\ UNCHANGED <<ovars, rvars, jvars, gvars, tvars>>

\* get_model with a cached model.
get_model_cached(p) ==
    /\ Len(get_calls) < MaxGetCalls
    /\ ~NeedsCreation(self_model[p])
    /\ get_calls' = Append(get_calls,
          [provider |-> p, before |-> self_model[p], created |-> FALSE,
           raised |-> "none", cause |-> "none", returned |-> self_model[p]])
    /\ UNCHANGED <<self_model, instances>>
    /\ UNCHANGED <<ovars, rvars, jvars, gvars, tvars>>

NextProvider ==
    \/ \E p \in Providers : get_model_creates(p)
    \/ \E p \in Providers, err \in CreateErrors : get_model_fails(p, err)
    \/ \E p \in Providers : get_model_cached(p)

InitProvider == Init /\ entry = "graph"

SpecProvider == InitProvider /\ [][NextProvider]_vars

(***************************************************************************)
(* The phases of the orchestrator, read off the loop position and the     *)
(* node that runs next.                                                    *)
(***************************************************************************)
Phase ==
    CASE node = "agent" /\ Running -> "REASONING"
      [] node = "action" /\ Running -> "EXECUTING_TOOLS"
      [] node = "human_approval" /\ (Running \/ pc = "confirm") -> "AWAITING_APPROVAL"
      [] node = "end" -> "DONE"
      [] OTHER -> "IDLE"

BatchIds(tcs) == {tcs[i].id : i \in 1..Len(tcs)}

InvokedIds == {c.id : c \in BagToSet(invoked)}

\* How many times the call with this id was handed to a provider.
Dispatches(inv, id) ==
    LET cs == {c \in BagToSet(inv) : c.id = id}
    IN IF cs = {} THEN 0
       ELSE IF Cardinality(cs) = 1 THEN CopiesIn(CHOOSE c \in cs : TRUE, inv)
       ELSE 2

ApprovedIds ==
    UNION {BatchIds(decided[k].batch) : k \in {j \in 1..Len(decided) : decided[j].approved}}

Mixed(tcs) ==
    /\ HasHighRisk(tcs)
    /\ \E i \in 1..Len(tcs) : tcs[i].name \notin HIGH_RISK_TOOLS

AnswerCount(msgs, id) ==
    Cardinality({k \in 1..Len(msgs) : msgs[k].role = "tool" /\ msgs[k].call_id = id})

Rejections(tcs) ==
    [i \in 1..Len(tcs) |-> ToolMessage(RejectionText, tcs[i].id)]

(***************************************************************************)
(* C1. In graph.py, a reasoning step whose message carries a batch with at *)
(* least one high-risk call is followed by the human_approval node, never  *)
(* by the action node, and dispatches nothing.                             *)
(***************************************************************************)
C1_RiskGating ==
    [][(/\ entry = "graph"
        /\ Phase = "REASONING"
        /\ messages' # messages
        /\ HasHighRisk(Last(messages').calls))
       => (Phase' = "AWAITING_APPROVAL" /\ invoked' = invoked)]_vars

\* A mixed batch (standard call first) proposed after an earlier decision is
\* routed to human_approval.
C1_Witness ==
    /\ entry = "graph"
    /\ node = "human_approval"
    /\ pc = "run"
    /\ decisions >= 1
    /\ Len(Last(messages).calls) = 2
    /\ Last(messages).calls[1].name \notin HIGH_RISK_TOOLS

(***************************************************************************)
(* C2. At every entry point a high-risk tool is handed to its provider     *)
(* only after an approved = true decision for the batch that contains the  *)
(* call.                                                                   *)
(***************************************************************************)
C2_HighRiskOnlyAfterApproval ==
    \A c \in BagToSet(invoked) :
        c.name \in HIGH_RISK_TOOLS => c.id \in ApprovedIds

(***************************************************************************)
(* C3. A decision approved = false on a pending batch of K calls appends   *)
(* exactly K rejection tool messages, one per call with that call's id,    *)
(* moves to REASONING and dispatches no call of the batch.                 *)
(***************************************************************************)
C3_RejectionAppendsK ==
    [][(pc = "confirm" /\ decisions' = decisions + 1 /\ decision' = "rejected")
       => (/\ messages' = messages \o Rejections(Last(messages).calls)
           /\ Phase' = "REASONING"
           /\ invoked' = invoked)]_vars

(***************************************************************************)
(* C4. Every tool-call request in the history has exactly one tool message *)
(* with its call id, except the requests of the last batch while it is     *)
(* pending approval or execution, which have none yet.                     *)
(***************************************************************************)
C4_EveryRequestAnswered ==
    \A k \in 1..Len(messages) :
        \A i \in 1..Len(messages[k].calls) :
            LET n == AnswerCount(messages, messages[k].calls[i].id)
            IN \/ n = 1
               \/ /\ n = 0
                  /\ k = Len(messages)
                  /\ Phase \in {"AWAITING_APPROVAL", "EXECUTING_TOOLS"}

(***************************************************************************)
(* C5. Across submissions, suspensions, decisions and resubmissions, no    *)
(* tool call (identified by its call id) is handed to its provider more    *)
(* than once.                                                              *)
(***************************************************************************)
C5_AtMostOnce ==
    \A id \in InvokedIds : Dispatches(invoked, id) = 1

\* A batch was approved in the first turn, the user resubmitted, and a call
\* was dispatched.
C5_Witness ==
    /\ turns = 2
    /\ ApprovedIds # {}
    /\ invoked # EmptyBag
    /\ pc = "input"

(***************************************************************************)
(* C6. While the orchestrator is suspended for approval, the checkpoint    *)
(* store holds a checkpoint of the thread whose last message carries the   *)
(* pending batch.                                                          *)
(***************************************************************************)
C6_CheckpointBeforeSuspension ==
    pc = "confirm" =>
        /\ Len(store[thread]) > 0
        /\ Last(store[thread]) = Last(messages)

C9_MixedBatchGatedAsWhole ==
    /\ (pc = "confirm" /\ Mixed(Last(messages).calls))
          => BatchIds(Last(messages).calls) \cap InvokedIds = {}
    /\ \A k \in 1..Len(decided) :
          Mixed(decided[k].batch) =>
              IF decided[k].approved
              THEN pc \in {"input", "exit"} => BatchIds(decided[k].batch) \subseteq InvokedIds
              ELSE BatchIds(decided[k].batch) \cap InvokedIds = {}

(***************************************************************************)
(* C10. When EXECUTING_TOOLS hands over to REASONING, every call of the     *)
(* batch that names a bound tool was dispatched exactly once (a call that  *)
(* names no tool was dispatched to nobody) and the messages appended are   *)
(* exactly one tool message per call, in the order of the calls in the     *)
(* batch, whatever the order in which the calls completed.                 *)
(***************************************************************************)
C10_ResultsInCallOrder ==
    [][(Phase = "EXECUTING_TOOLS" /\ Phase' = "REASONING")
       => LET tcs == Last(messages).calls
              n == Len(messages)
          IN /\ Len(messages') = n + Len(tcs)
             /\ SubSeq(messages', 1, n) = messages
             /\ \A i \in 1..Len(tcs) :
                   /\ messages'[n + i].role = "tool"
                   /\ messages'[n + i].call_id = tcs[i].id
                   /\ Dispatches(invoked', tcs[i].id)
                         = IF tcs[i].name \in all_tools(entry) THEN 1 ELSE 0]_vars

\* The second call of a batch completed before the first, and the results
\* stand in call order.
C10_Witness ==
    /\ node = "agent"
    /\ completed = <<2, 1>>
    /\ Len(messages) >= 3
    /\ Last(messages).role = "tool"
    /\ messages[Len(messages) - 1].role = "tool"
    /\ messages[Len(messages) - 1].call_id < Last(messages).call_id


IsStrictPrefix(s, t) == Len(s) < Len(t) /\ SubSeq(t, 1, Len(s)) = s

(***************************************************************************)
(* C11. Histories grow by appending across turns: when a further user      *)
(* message is submitted on the thread of a turn that ran to its end, the   *)
(* run starts at REASONING with the history that turn left, extended at    *)
(* its end.                                                                *)
(***************************************************************************)
C11_HistoryGrowsAcrossTurns ==
    [][(turns >= 1 /\ node = "end" /\ turns' = turns + 1 /\ thread' = thread)
       => (IsStrictPrefix(messages, messages') /\ Phase' = "REASONING")]_vars

(***************************************************************************)
(* C12. When the model call fails, in the first reasoning step of a turn   *)
(* or after tool execution, the failure is surfaced to the caller and the  *)
(* checkpoint store is exactly what it was when the turn began.            *)
(***************************************************************************)
C12_ModelFailureLeavesStore ==
    lastError = "model_failure" => (pc = "input" /\ store = turnStart)

\* The action node has handled every call of the batch and hands over.
ToolNodeDone ==
    /\ Phase = "EXECUTING_TOOLS"
    /\ pending = {}
    /\ <<pc, node, messages>>' # <<pc, node, messages>>

(***************************************************************************)
(* C13. When a provider invocation fails during EXECUTING_TOOLS (the tool  *)
(* raises or its arguments are rejected), the failure is the content of    *)
(* the tool message of that call, the run goes on to REASONING, and no     *)
(* invocation ever ends with a tool failure as its error.                  *)
(***************************************************************************)
C13_ToolFailureRecorded ==
    /\ [](lastError # "tool_failure")
    /\ [][(ToolNodeDone /\ failed # {})
          => (/\ Phase' = "REASONING"
              /\ lastError' = lastError
              /\ \A i \in failed :
                    LET m == messages'[Len(messages) + i]
                    IN /\ m.role = "tool"
                       /\ m.call_id = Last(messages).calls[i].id
                       /\ m.content \in ErrorContents)]_vars

\* In graph.py a provider failed and the next reasoning step is about to run
\* with the failure as the last tool message.
C13_Witness ==
    /\ entry = "graph"
    /\ Phase = "REASONING"
    /\ Last(messages).role = "tool"
    /\ Last(messages).content = "Error: tool failed"
    /\ invoked # EmptyBag

C15_ApprovalKeepsBatch ==
    [][(pc = "confirm" /\ decisions' = decisions + 1 /\ decision' = "approved")
       => (/\ Phase' = "EXECUTING_TOOLS"
           /\ messages' = messages
           /\ pending' = 1..Len(Last(messages).calls)
           /\ invoked' = invoked)]_vars

\* The risk tier of a tool name.
RiskTier(name) == IF name \in HIGH_RISK_TOOLS THEN "high-risk" ELSE "standard"

StandardOnly(tcs) ==
    /\ tcs # <<>>
    /\ \A i \in 1..Len(tcs) : RiskTier(tcs[i].name) = "standard"

(***************************************************************************)
(* C16. A reasoning step whose batch holds only standard calls (calls of   *)
(* tools outside HIGH_RISK_TOOLS) is followed directly by EXECUTING_TOOLS  *)
(* with the whole batch to dispatch, raises no interrupt and shows the     *)
(* approver nothing; and the run is never at the approval node or prompt   *)
(* with such a batch.                                                      *)
(***************************************************************************)
C16_StandardBatchRunsDirectly ==
    /\ [][(Phase = "REASONING" /\ messages' # messages /\ StandardOnly(Last(messages').calls))
          => (/\ Phase' = "EXECUTING_TOOLS"
              /\ pending' = 1..Len(Last(messages').calls)
              /\ suspensions' = suspensions
              /\ exposed' = exposed)]_vars
    /\ []((Phase = "AWAITING_APPROVAL" \/ pc = "confirm")
             => ~StandardOnly(Last(messages).calls))

\* graph.py is about to execute a batch of two standard calls: no interrupt
\* was raised and nothing was shown to the approver.
C16_Witness ==
    /\ entry = "graph"
    /\ Phase = "EXECUTING_TOOLS"
    /\ Len(Last(messages).calls) = 2
    /\ StandardOnly(Last(messages).calls)
    /\ suspensions = 0
    /\ exposed = <<>>

(***************************************************************************)
(* C17. A reasoning step that returns a message without tool calls appends *)
(* that message and moves the run to DONE; from DONE nothing changes the   *)
(* history, no provider is invoked and no interrupt is raised until a new  *)
(* user message starts the next run.                                       *)
(***************************************************************************)
C17_DoneIsTerminal ==
    /\ [][(Phase = "REASONING" /\ messages' # messages /\ Last(messages').calls = <<>>)
          => (/\ messages' = Append(messages, AIMessage(<<>>))
              /\ Phase' = "DONE")]_vars
    /\ [][Phase = "DONE"
          => \/ turns' = turns + 1
             \/ /\ Phase' \in {"DONE", "IDLE"}
                /\ <<messages, invoked, suspensions, decisions, steps>>'
                      = <<messages, invoked, suspensions, decisions, steps>>]_vars

\* A run that executed a tool batch, then got a final answer, has returned
\* to the prompt.
C17_Witness ==
    /\ node = "end"
    /\ pc = "input"
    /\ Len(messages) >= 4
    /\ Last(messages) = AIMessage(<<>>)
    /\ messages[Len(messages) - 1].role = "tool"

(***************************************************************************)
(* C19. Saving and loading round-trips: once a run has ended, what the     *)
(* entry point's next invocation on the thread loads from its checkpoint   *)
(* store is the history the run ended with.                                *)
(***************************************************************************)
C19_CheckpointRoundTrip ==
    (pc = "input" /\ node = "end") => get_tuple(entry, thread) = messages

(***************************************************************************)
(* C20. run_command stops waiting once its timeout has elapsed: a caller   *)
(* that is still in the loop when `timeout` has passed since it wrote its  *)
(* command gets out of run_command, whatever the child process does.       *)
(***************************************************************************)
C20_RunCommandStopsWaiting ==
    \A c \in Callers :
        (rpc[c] = "waiting" /\ elapsed[c] >= Timeout) ~> (rpc[c] # "waiting")

\* The get_build_info calls that found the build finished, and those that
\* raised.
FinishedPolls == {k \in 1..Len(polls) : ~polls[k].resp.raises /\ ~GetBuilding(polls[k].resp)}

RaisedPolls == {k \in 1..Len(polls) : polls[k].resp.raises}

(***************************************************************************)
(* C21. wait_for_build_completion always returns. It returns COMPLETED     *)
(* exactly when a poll found building false, with that poll's result;      *)
(* ERROR exactly when a poll raised, which is then the last poll; TIMEOUT  *)
(* exactly when every poll found the build still building, and then the    *)
(* timeout has elapsed. No poll begins once the timeout has elapsed.       *)
(***************************************************************************)
C21_WaitForBuildCompletion ==
    /\ [](\A k \in 1..Len(polls) :
             /\ polls[k].at - start_time < jtimeout
             /\ k \in FinishedPolls \cup RaisedPolls => k = Len(polls))
    /\ [](jpc = "done" =>
             /\ jreturn.status \in {"COMPLETED", "ERROR", "TIMEOUT"}
             /\ jreturn.status = "COMPLETED" <=> FinishedPolls # {}
             /\ jreturn.status = "COMPLETED" => jreturn.result = polls[Len(polls)].resp.result
             /\ jreturn.status = "ERROR" <=> RaisedPolls # {}
             /\ jreturn.status = "TIMEOUT" => jnow - start_time >= jtimeout)
    /\ [](jpc # "done" => jreturn.status = "NONE")
    /\ (jpc # "idle") ~> (jpc = "done")

\* The first poll found the build still building, the second found it
\* finished with FAILURE.
C21_Witness ==
    /\ jpc = "done"
    /\ Len(polls) = 2
    /\ jreturn = [status |-> "COMPLETED", result |-> "FAILURE"]

HasRateLimitText(e) ==
    \/ Contains(Lower(e.message), <<"rate", " ", "limit">>)
    \/ Contains(Lower(e.message), <<"resource has been exhausted">>)

(***************************************************************************)
(* C22. The value is_retryable_exception returned for the exception of a   *)
(* failed attempt: False for a non-retryable Google API exception whatever *)
(* its message; otherwise True for a retryable Google API exception and    *)
(* for TimeoutError; otherwise True exactly when the lower-cased message   *)
(* contains "rate limit" or "resource has been exhausted".                 *)
(***************************************************************************)
C22_RetryableClassification ==
    gpc \in {"raised", "retry_error", "sleep"} =>
        verdict = CASE exc.type \in GoogleNonRetryable -> FALSE
                    [] exc.type \in GoogleRetryable \cup {"TimeoutError"} -> TRUE
                    [] OTHER -> HasRateLimitText(exc)

\* A PermissionDenied whose message holds rate-limit text was classified
\* as not retryable and raised to the caller.
C22_Witness ==
    /\ gpc = "raised"
    /\ exc.type = "PermissionDenied"
    /\ HasRateLimitText(exc)
    /\ exc.message # Lower(exc.message)
    /\ verdict = FALSE


(***************************************************************************)
(* C23. Last clause: no attempt of a call wrapped by gemini_llm_retry      *)
(* begins once 300 seconds have elapsed since the first attempt began.     *)
(***************************************************************************)
C23_NoAttemptAfterStopDelay ==
    \A k \in 1..Len(attempts) : attempts[k].at - gstart < StopDelay

\* The get_model calls on provider p, in order.
CallsOf(p) == SelectSeq(get_calls, LAMBDA c : c.provider = p)

(***************************************************************************)
(* C24. For each provider, over the history of its get_model calls:        *)
(* _create_model is invoked exactly by the calls that find no model        *)
(* cached; once a call has returned a model every later call returns that  *)
(* instance without invoking _create_model; a call whose creation fails    *)
(* raises LLMProviderError, and the call after it invokes _create_model    *)
(* again; the cache holds the last model built, or nothing.                *)
(***************************************************************************)
C24_LazyCachedModel ==
    \A p \in Providers :
        LET cs == CallsOf(p) IN
        /\ \A k \in 1..Len(cs) :
              /\ cs[k].created <=> (\A j \in 1..(k - 1) : cs[j].raised # "none")
              /\ cs[k].raised # "none" => cs[k].raised = "LLMProviderError" /\ cs[k].created
              /\ \A j \in 1..(k - 1) :
                    cs[j].raised = "none" =>
                        /\ cs[k].raised = "none"
                        /\ cs[k].returned = cs[j].returned
                        /\ cs[k].returned # None
                        /\ ~cs[k].created
        /\ (\A k \in 1..Len(cs) : cs[k].raised # "none") => self_model[p] = None
        /\ \A k \in 1..Len(cs) : cs[k].raised = "none" => self_model[p] = cs[k].returned

\* A provider whose first creation failed, whose second call built the
\* model, and whose third call returned the cached instance.
C24_Witness ==
    \E p \in Providers :
        LET cs == CallsOf(p) IN
        /\ Len(cs) = 3
        /\ cs[1].raised = "LLMProviderError"
        /\ cs[2].created /\ cs[2].raised = "none"
        /\ ~cs[3].created /\ cs[3].returned = cs[2].returned

\* The callers whose _run got past _build_command.
PastBuildCommand == {c \in Callers : rpc[c] \in {"called", "locked", "waiting", "returned", "raised"}}

(***************************************************************************)
(* C25. powershell_tofu_apply sends a command to the shared session only   *)
(* when auto_approve is exactly True: a tofu_apply call is past            *)
(* _build_command, and a command is written to stdin for it, only with     *)
(* auto_approve True; with any other value the call is refused (the error  *)
(* string is returned), and the step that refuses it writes nothing to     *)
(* stdin and leaves the runner as it was.                                  *)
(***************************************************************************)
C25_TofuApplyNeedsAutoApprove ==
    /\ [](\A c \in Callers :
             args[c].command_name = "tofu_apply" =>
                 IF args[c].auto_approve = "True"
                 THEN c \in PastBuildCommand
                 ELSE rpc[c] = "refused")
    /\ [][\A c \in Callers :
             (rpc'[c] = "refused" /\ (rpc[c] # "refused" \/ args'[c] # args[c])) =>
                 UNCHANGED <<process, lock, stdin, cur, stage, emitted, stdout_queue,
                             stderr_queue, end_marker, end_stdout, end_stderr,
                             stdout_lines, stderr_lines, nextCmd, issuer>>]_vars
    /\ [][Len(stdin') > Len(stdin) =>
             \E c \in Callers :
                 /\ rpc[c] = "locked"
                 /\ issuer' = Append(issuer, c)
                 /\ args[c].command_name = "tofu_apply" => args[c].auto_approve = "True"]_vars

\* One tofu_apply call with auto_approve None was refused with nothing on
\* stdin, while the other caller's tofu_apply with True ran to its result.
C25_Witness ==
    \E c, d \in Callers :
        /\ rpc[c] = "refused"
        /\ args[c] = [command_name |-> "tofu_apply", auto_approve |-> "None"]
        /\ rpc[d] = "returned"
        /\ args[d] = [command_name |-> "tofu_apply", auto_approve |-> "True"]
        /\ issuer = <<d>>

(***************************************************************************)
(* C26. The action node is entered only when the last message of the state *)
(* is an assistant message with at least one tool call: whenever a run is  *)
(* in the action node, and until the node returns, the last message is     *)
(* such a message. This covers the edges out of the agent node and out of  *)
(* the approval node.                                                      *)
(***************************************************************************)
C26_ActionNeedsToolCalls ==
    node = "action" => Last(messages).role = "assistant" /\ Last(messages).calls # <<>>

\* The graph of graph.py is in the action node with a batch of two calls.
C26_Witness ==
    /\ entry = "graph"
    /\ node = "action"
    /\ Len(Last(messages).calls) = 2
    /\ pending # {}

(***************************************************************************)
(* C27. Approval is fail-closed. When the approver has answered and the    *)
(* graph is invoked with the resume value: the batch goes to the action    *)
(* node only on an approval (the answer, trimmed and lower-cased, is       *)
(* "yes"); on every other answer the rejection path is taken, that is the  *)
(* rejection message is appended and the run is back at the agent node,    *)
(* and no call of the batch is executed.                                   *)
(***************************************************************************)
C27_ApprovalFailClosed ==
    [][pc = "confirm" /\ pc' # "confirm" =>
          /\ node' = "action" => decision' = "approved"
          /\ decision' # "approved" =>
                /\ node' = "agent"
                /\ Last(messages').role = "tool"
                /\ ContainsHumanHasRejected(Last(messages').content)
                /\ invoked' = invoked]_vars

\* The threads inside `with self.lock:`.
InsideLock ==
    {c \in Callers : rpc[c] \in {"locked", "waiting"}} \cup
    (IF cpc = "locked" THEN {Closer} ELSE {})

\* The lines a caller has taken from the queues for its current result.
Consumed(c) ==
    {stdout_lines[c][i] : i \in 1..Len(stdout_lines[c])} \cup
    {stderr_lines[c][i] : i \in 1..Len(stderr_lines[c])}

\* At most one thread is inside the lock, and it is the holder.
MutualExclusion ==
    /\ Cardinality(InsideLock) <= 1
    /\ \A c \in InsideLock : lock = c

(***************************************************************************)
(* C28. run_command calls exclude each other, close() included: at most    *)
(* one thread is between taking the lock and releasing it, so at most one  *)
(* caller is between writing its command and reading its end markers; and  *)
(* no caller takes from the queues a line the child wrote for a command of *)
(* another caller.                                                         *)
(***************************************************************************)
C28_RunCommandExclusive ==
    /\ MutualExclusion
    /\ \A c \in Callers : \A l \in Consumed(c) : issuer[l.cmd] = c

(***************************************************************************)
(* C29. The stdout and stderr a call returns hold only lines the child     *)
(* wrote for that call's command, and its returncode is computed from      *)
(* those lines only: no line left over from an earlier command, or         *)
(* reaching a queue after that command's end marker was read, is part of   *)
(* a later result.                                                         *)
(***************************************************************************)
C29_ResultHoldsOwnLinesOnly ==
    \A c \in Callers :
        rpc[c] = "returned" =>
            /\ \A l \in Consumed(c) : l.cmd = end_marker[c]
            /\ returncode[c] =
                  Heuristic(SelectSeq(stderr_lines[c], LAMBDA l : l.cmd = end_marker[c]))

=============================================================================
